---- MODULE Spec2Model ----
(***************************************************************************)
(* SceneExtension (3D panel base class): the renderable mapping, the       *)
(* per-frame pose update, disposal, and the settings / error sinks it      *)
(* writes to.  One action per public method; JavaScript runs each method   *)
(* to completion, so each action is the whole method.  The start screen's  *)
(* SidebarItems (robot layout import and connect) is modelled beside it.   *)
(***************************************************************************)
EXTENDS Integers, Sequences, FiniteSets, TLC

\* ------------------------------------------------------------------ bounds
\* Playback and message timestamps range over 1..MaxTime.
MaxTime == 2

Times == 1..MaxTime

\* ------------------------------------------------------------ value domains
\* Renderable objects; each is stored in the mapping under its own name.
RenderableIds == {"a", "b"}

\* A child of the extension that is not a Renderable (added with this.add()).
OtherChild == "axes"

\* Settings paths (LayerErrors.Path) a renderable may report errors at.
Paths == {<<"topics", "/a">>, <<"topics", "/b">>}

FixedFrame == "map"

\* Frames whose transform to the fixed frame is stored in the Transform Tree.
TreeFrames == {"lidar", "base_link"}

\* Frames whose samples arrive and are evicted while the panel runs; the other
\* frames of the tree are known at every time.
StreamedFrames == {"lidar"}

\* Frames the camera may be expressed in.
RenderFrames == {"map", "base_link"}

MISSING_TRANSFORM == "MISSING_TRANSFORM"

\* An error id a subclass reports at a settings path (a malformed message).
INVALID_MESSAGE == "INVALID_MESSAGE"

VARIABLES
    renderables,    \* this.renderables: the Map's entries in insertion order
    children,       \* this.children (THREE.Object3D), duplicate-free
    userData,       \* renderable.userData; frameLocked "unset" is undefined
    visible,        \* renderable.visible (THREE.Object3D flag)
    position,       \* renderable.position / quaternion: the resolved pose
    disposed,       \* how many times renderable.dispose() ran
    transformTree,  \* renderer.transformTree: frame -> times with a sample
    errors,         \* renderer.settings.errors: path -> (error id -> message)
    config,         \* the panel configuration renderer.updateConfig() edits
    nodesByKey,     \* renderer.settings: key -> nodes last set for the key
    microtasks,     \* the microtask queue (queueMicrotask)
    lastCall,       \* the method that ran last, with its arguments
    poseCalls,      \* updatePose() calls made by the method that ran last
    errorCalls,     \* error-sink calls made by the method that ran last
    sinkCalls,      \* setNodesForKey() calls made by the method that ran last
    availableSources,       \* usePlayerSelection().availableSources
    arenaRunningInstances,  \* SidebarItems state: the instances of running.json
    loadingInstance,        \* SidebarItems state: the key of the loading instance
    boundLoadingInstance,   \* loadingInstance as the rendered onClick handler sees it
    sidebarItemsKey,        \* Start state: the key SidebarItems is mounted under
    imports,                \* layoutActions.importFromURL() calls in flight
    selectedSource          \* the data source selectSource() was last called with

\* The state of the scene extension, but for lastCall.
sceneVars == <<renderables, children, userData, visible, position, disposed,
               transformTree, errors, config, nodesByKey, microtasks,
               poseCalls, errorCalls, sinkCalls>>

\* The state of the start screen.
startVars == <<availableSources, arenaRunningInstances, loadingInstance,
               boundLoadingInstance, sidebarItemsKey, imports, selectedSource>>

vars == <<renderables, children, userData, visible, position, disposed,
          transformTree, errors, config, nodesByKey, microtasks, lastCall,
          poseCalls, errorCalls, sinkCalls, availableSources,
          arenaRunningInstances, loadingInstance, boundLoadingInstance,
          sidebarItemsKey, imports, selectedSource>>

\* ----------------------------------------------------------------- helpers
Range(s) == {s[i] : i \in 1..Len(s)}

\* The renderable objects currently in the mapping.
Mapped == Range(renderables)

\* THREE.Object3D defaults of a renderable that was never placed.
DefaultPose == [frame |-> "none", srcTime |-> 0, renderFrame |-> "none", dstTime |-> 0]

DefaultUserData ==
    [settingsPath |-> <<"topics", "/a">>,
     settings |-> [visible |-> TRUE, frameLocked |-> "unset"],
     messageTime |-> 1,
     frameId |-> "lidar"]

NoErrors == [p \in Paths |-> << >>]

\* ------------------------------------------------------ external collaborators
\* TransformTree: a frame can be placed relative to the fixed frame at time t
\* when it is the fixed frame itself or the tree holds a sample for it at t.
hasTransform(tree, frameId, fixedFrameId, t) ==
    \/ frameId = fixedFrameId
    \/ (frameId \in DOMAIN tree /\ t \in tree[frameId])

\* updatePose(): resolves srcFrame@srcTime -> fixedFrame -> renderFrame@dstTime.
\* On success the renderable gets the resolved pose, on failure its pose is kept.
updatePose(pose, tree, renderFrameId, fixedFrameId, srcFrameId, dstTime, srcTime) ==
    IF /\ hasTransform(tree, srcFrameId, fixedFrameId, srcTime)
       /\ hasTransform(tree, renderFrameId, fixedFrameId, dstTime)
    THEN [updated |-> TRUE,
          pose |-> [frame |-> srcFrameId, srcTime |-> srcTime,
                    renderFrame |-> renderFrameId, dstTime |-> dstTime]]
    ELSE [updated |-> FALSE, pose |-> pose]

\* missingTransformMessage(): names the render frame, the fixed frame and the
\* renderable's frame.
missingTransformMessage(renderFrameId, fixedFrameId, srcFrameId) ==
    [renderFrameId |-> renderFrameId, fixedFrameId |-> fixedFrameId,
     srcFrameId |-> srcFrameId]

\* LayerErrors.add(path, errorId, message): one message per error id at a path.
errorsAdd(errs, path, errorId, message) ==
    [errs EXCEPT ![path] =
        [k \in (DOMAIN errs[path]) \cup {errorId} |->
            IF k = errorId THEN message ELSE errs[path][k]]]

\* LayerErrors.remove(path, errorId)
errorsRemove(errs, path, errorId) ==
    [errs EXCEPT ![path] =
        [k \in (DOMAIN errs[path]) \ {errorId} |-> errs[path][k]]]

\* LayerErrors.clearPath(path): drops every error at the path.
errorsClearPath(errs, path) == [errs EXCEPT ![path] = << >>]

hasError(errs, path, errorId) == errorId \in DOMAIN errs[path]

\* ------------------------------------------------------------- startFrame
\* The frame-local state the loop of startFrame threads through its iterations.
FrameState(vis, pos, errs, pcalls, ecalls) ==
    [visible |-> vis, position |-> pos, errors |-> errs,
     poseCalls |-> pcalls, errorCalls |-> ecalls]

\* The source time with the default of frameLocked taken as false.
srcTimeOf_defaultUnlocked(ud, currentTime) ==
    IF ud.settings.frameLocked = "true" THEN currentTime ELSE ud.messageTime

\* The source time of a renderable: currentTime when frame-locked (the default).
srcTimeOf(ud, currentTime) ==
    LET frameLocked == IF ud.settings.frameLocked = "unset" THEN TRUE
                       ELSE ud.settings.frameLocked = "true"
    IN IF frameLocked THEN currentTime ELSE ud.messageTime

\* The skip of an invisible renderable with the clearPath() call left out.
hiddenStep_keepErrors(st, path) == st

\* The skip of an invisible renderable that takes back the MISSING_TRANSFORM
\* error only, with remove() in the place of clearPath().
hiddenStep_removesOneKind(st, path) ==
    [st EXCEPT !.errors = errorsRemove(st.errors, path, MISSING_TRANSFORM),
               !.errorCalls = Append(@,
                   [fn |-> "clearPath", path |-> path,
                    had |-> hasError(st.errors, path, MISSING_TRANSFORM),
                    cleared |-> DOMAIN st.errors[path]])]

\* An invisible renderable: clear the errors at its path, skip the rest.
hiddenStep(st, path) ==
    [st EXCEPT !.errors = errorsClearPath(st.errors, path),
               !.errorCalls = Append(@,
                   [fn |-> "clearPath", path |-> path,
                    had |-> hasError(st.errors, path, MISSING_TRANSFORM),
                    cleared |-> DOMAIN st.errors[path]])]

\* The error report with the render and the fixed frame swapped in the message.
reportPose_swappedFrames(errs, path, updated, renderFrameId, fixedFrameId, frameId) ==
    IF ~updated
    THEN errorsAdd(errs, path, MISSING_TRANSFORM,
                   missingTransformMessage(fixedFrameId, renderFrameId, frameId))
    ELSE errorsRemove(errs, path, MISSING_TRANSFORM)

\* The error report that never takes an error back.
reportPose_neverRemoves(errs, path, updated, renderFrameId, fixedFrameId, frameId) ==
    IF ~updated
    THEN errorsAdd(errs, path, MISSING_TRANSFORM,
                   missingTransformMessage(renderFrameId, fixedFrameId, frameId))
    ELSE errs

\* The error report that leaves an error already at the path as it is.
reportPose_keepsFirst(errs, path, updated, renderFrameId, fixedFrameId, frameId) ==
    IF ~updated
    THEN IF hasError(errs, path, MISSING_TRANSFORM) THEN errs
         ELSE errorsAdd(errs, path, MISSING_TRANSFORM,
                        missingTransformMessage(renderFrameId, fixedFrameId, frameId))
    ELSE errorsRemove(errs, path, MISSING_TRANSFORM)

\* The error report that on success takes the error back at every path.
reportPose_removesEverywhere(errs, path, updated, renderFrameId, fixedFrameId, frameId) ==
    IF ~updated
    THEN errorsAdd(errs, path, MISSING_TRANSFORM,
                   missingTransformMessage(renderFrameId, fixedFrameId, frameId))
    ELSE [p \in DOMAIN errs |->
             [k \in (DOMAIN errs[p]) \ {MISSING_TRANSFORM} |-> errs[p][k]]]

\* if (!updated) errors.add(path, MISSING_TRANSFORM, message)
\* else errors.remove(path, MISSING_TRANSFORM)
reportPose(errs, path, updated, renderFrameId, fixedFrameId, frameId) ==
    IF ~updated
    THEN errorsAdd(errs, path, MISSING_TRANSFORM,
                   missingTransformMessage(renderFrameId, fixedFrameId, frameId))
    ELSE errorsRemove(errs, path, MISSING_TRANSFORM)

\* A visible renderable: resolve its pose and report or take back the error.
poseStep(st, r, ud, tree, currentTime, renderFrameId, fixedFrameId) ==
    LET path == ud.settingsPath
        srcTime == srcTimeOf(ud, currentTime)
        frameId == ud.frameId
        res == updatePose(st.position[r], tree, renderFrameId, fixedFrameId,
                          frameId, currentTime, srcTime)
    IN [visible |-> st.visible,
        position |-> [st.position EXCEPT ![r] = res.pose],
        poseCalls |-> Append(st.poseCalls,
            [renderable |-> r, renderFrameId |-> renderFrameId,
             fixedFrameId |-> fixedFrameId, srcFrameId |-> frameId,
             dstTime |-> currentTime, srcTime |-> srcTime,
             updated |-> res.updated]),
        errors |-> reportPose(st.errors, path, res.updated, renderFrameId,
                              fixedFrameId, frameId),
        errorCalls |-> Append(st.errorCalls,
            IF res.updated
            THEN [fn |-> "remove", path |-> path,
                  had |-> hasError(st.errors, path, MISSING_TRANSFORM)]
            ELSE [fn |-> "add", path |-> path,
                  had |-> hasError(st.errors, path, MISSING_TRANSFORM),
                  renderable |-> r,
                  replaced |->
                      /\ hasError(st.errors, path, MISSING_TRANSFORM)
                      /\ st.errors[path][MISSING_TRANSFORM] #
                             missingTransformMessage(renderFrameId, fixedFrameId,
                                                     frameId)])]

\* One iteration with the visibility test made before the flag is assigned.
frameStep_staleVisible(st, r, ud, tree, currentTime, renderFrameId, fixedFrameId) ==
    LET st1 == [st EXCEPT !.visible[r] = ud.settings.visible]
    IN IF ~st.visible[r]
       THEN hiddenStep(st1, ud.settingsPath)
       ELSE poseStep(st1, r, ud, tree, currentTime, renderFrameId, fixedFrameId)

\* One iteration without the continue after clearPath(): an invisible
\* renderable goes on to the pose update.
frameStep_withoutContinue(st, r, ud, tree, currentTime, renderFrameId, fixedFrameId) ==
    LET st1 == [st EXCEPT !.visible[r] = ud.settings.visible]
    IN IF ~st1.visible[r]
       THEN poseStep(hiddenStep(st1, ud.settingsPath), r, ud, tree, currentTime,
                     renderFrameId, fixedFrameId)
       ELSE poseStep(st1, r, ud, tree, currentTime, renderFrameId, fixedFrameId)

\* One iteration of the loop of startFrame, for renderable r.
frameStep(st, r, ud, tree, currentTime, renderFrameId, fixedFrameId) ==
    LET st1 == [st EXCEPT !.visible[r] = ud.settings.visible]
    IN IF ~st1.visible[r]
       THEN hiddenStep(st1, ud.settingsPath)
       ELSE poseStep(st1, r, ud, tree, currentTime, renderFrameId, fixedFrameId)

\* The loop leaving at the first renderable whose pose did not resolve.
RECURSIVE frameLoop_stopsAtFailure(_, _, _, _, _, _, _)
frameLoop_stopsAtFailure(st, rs, uds, tree, currentTime, renderFrameId, fixedFrameId) ==
    IF rs = << >> THEN st
    ELSE LET next == frameStep(st, Head(rs), uds[Head(rs)], tree, currentTime,
                               renderFrameId, fixedFrameId)
         IN IF /\ Len(next.poseCalls) > Len(st.poseCalls)
               /\ ~next.poseCalls[Len(next.poseCalls)].updated
            THEN next
            ELSE frameLoop_stopsAtFailure(next, Tail(rs), uds, tree, currentTime,
                                          renderFrameId, fixedFrameId)

\* for (const renderable of this.renderables.values()) { ... }
RECURSIVE frameLoop(_, _, _, _, _, _, _)
frameLoop(st, rs, uds, tree, currentTime, renderFrameId, fixedFrameId) ==
    IF rs = << >> THEN st
    ELSE frameLoop(frameStep(st, Head(rs), uds[Head(rs)], tree, currentTime,
                             renderFrameId, fixedFrameId),
                   Tail(rs), uds, tree, currentTime, renderFrameId, fixedFrameId)

\* The record of a startFrame call; repeat tells that the call before it was a
\* startFrame with the same arguments.
frameCall(currentTime, renderFrameId, fixedFrameId, repeat) ==
    [op |-> "startFrame", currentTime |-> currentTime,
     renderFrameId |-> renderFrameId, fixedFrameId |-> fixedFrameId,
     repeat |-> repeat]

sameCall(call, currentTime, renderFrameId, fixedFrameId) ==
    /\ call.op = "startFrame"
    /\ call.currentTime = currentTime
    /\ call.renderFrameId = renderFrameId
    /\ call.fixedFrameId = fixedFrameId

\* startFrame() that also evicts the samples older than currentTime.
startFrame_evictsOldSamples(currentTime, renderFrameId, fixedFrameId) ==
    LET st == frameLoop(FrameState(visible, position, errors, << >>, << >>),
                        renderables, userData, transformTree,
                        currentTime, renderFrameId, fixedFrameId)
    IN /\ visible' = st.visible
       /\ position' = st.position
       /\ errors' = st.errors
       /\ poseCalls' = st.poseCalls
       /\ errorCalls' = st.errorCalls
       /\ sinkCalls' = << >>
       /\ lastCall' = frameCall(currentTime, renderFrameId, fixedFrameId,
                                  sameCall(lastCall, currentTime, renderFrameId,
                                           fixedFrameId))
       /\ transformTree' = [f \in DOMAIN transformTree |->
                               {t \in transformTree[f] : t >= currentTime}]
       /\ UNCHANGED startVars
       /\ UNCHANGED <<renderables, children, userData, disposed,
                      config, nodesByKey, microtasks>>

\* startFrame(currentTime, renderFrameId, fixedFrameId): the loop over the
\* mapping; nothing but the renderables and the error sink is written.
startFrame(currentTime, renderFrameId, fixedFrameId) ==
    LET st == frameLoop(FrameState(visible, position, errors, << >>, << >>),
                        renderables, userData, transformTree,
                        currentTime, renderFrameId, fixedFrameId)
    IN /\ visible' = st.visible
       /\ position' = st.position
       /\ errors' = st.errors
       /\ poseCalls' = st.poseCalls
       /\ errorCalls' = st.errorCalls
       /\ sinkCalls' = << >>
       /\ lastCall' = frameCall(currentTime, renderFrameId, fixedFrameId,
                                  sameCall(lastCall, currentTime, renderFrameId,
                                           fixedFrameId))
       /\ UNCHANGED startVars
       /\ UNCHANGED <<renderables, children, userData, disposed, transformTree,
                      config, nodesByKey, microtasks>>

\* ---------------------------------------------------------- settings tree
ExtensionId == "foxglove.Markers"

\* A key of the settings sink that belongs to another extension.
OtherKey == "foxglove.Grid"

\* settingsNodes(): the base class contributes no nodes.  rs and cfg are the
\* mapping and the configuration an override would read when it is called.
settingsNodes(rs, cfg) == << >>

\* SettingsManager.setNodesForKey(key, nodes)
setNodesForKey(nbk, key, nodes) ==
    [k \in (DOMAIN nbk) \cup {key} |-> IF k = key THEN nodes ELSE nbk[k]]

\* updateSettingsTree(), called while the mapping is rs and the configuration cfg.
updateSettingsTree(rs, cfg) ==
    /\ nodesByKey' = setNodesForKey(nodesByKey, ExtensionId, settingsNodes(rs, cfg))
    /\ sinkCalls' = <<[key |-> ExtensionId, nodes |-> settingsNodes(rs, cfg),
                       mapping |-> rs, config |-> cfg]>>

\* The task the constructor queued: () => this.updateSettingsTree()
runMicrotask ==
    /\ microtasks # << >>
    /\ microtasks' = Tail(microtasks)
    /\ updateSettingsTree(renderables, config)
    /\ lastCall' = [op |-> "microtask"]
    /\ poseCalls' = << >>
    /\ errorCalls' = << >>
    /\ UNCHANGED startVars
    /\ UNCHANGED <<renderables, children, userData, visible, position, disposed,
                   transformTree, errors, config>>

\* ------------------------------------------------------------------ disposal
\* renderable.dispose() on every renderable of rs.
disposeAll(d, rs) == [r \in DOMAIN d |-> IF r \in Range(rs) THEN d[r] + 1 ELSE d[r]]

\* THREE.Object3D.remove(object), for every renderable of rs.
removeChildren(ch, rs) == ch \ Range(rs)

\* dispose() with the line that empties this.children left out.
dispose_keepsChildren ==
    /\ disposed' = disposeAll(disposed, renderables)
    /\ children' = children
    /\ renderables' = << >>
    /\ lastCall' = [op |-> "dispose", mapping |-> renderables]
    /\ poseCalls' = << >>
    /\ errorCalls' = << >>
    /\ sinkCalls' = << >>
    /\ UNCHANGED startVars
    /\ UNCHANGED <<userData, visible, position, transformTree, errors, config,
                   nodesByKey, microtasks>>

\* dispose() with the this.renderables.clear() call left out.
dispose_keepsMapping ==
    /\ disposed' = disposeAll(disposed, renderables)
    /\ children' = {}
    /\ renderables' = renderables
    /\ lastCall' = [op |-> "dispose", mapping |-> renderables]
    /\ poseCalls' = << >>
    /\ errorCalls' = << >>
    /\ sinkCalls' = << >>
    /\ UNCHANGED startVars
    /\ UNCHANGED <<userData, visible, position, transformTree, errors, config,
                   nodesByKey, microtasks>>

\* dispose() that also clears the error-sink path of every renderable it
\* disposes.
dispose_clearsErrors ==
    /\ disposed' = disposeAll(disposed, renderables)
    /\ children' = {}
    /\ renderables' = << >>
    /\ errors' = [p \in DOMAIN errors |->
                     IF \E r \in Mapped : userData[r].settingsPath = p
                     THEN << >> ELSE errors[p]]
    /\ lastCall' = [op |-> "dispose", mapping |-> renderables]
    /\ poseCalls' = << >>
    /\ errorCalls' = << >>
    /\ sinkCalls' = << >>
    /\ UNCHANGED startVars
    /\ UNCHANGED <<userData, visible, position, transformTree, config,
                   nodesByKey, microtasks>>

\* dispose() that ends with a settings refresh, as removeAllRenderables() does.
dispose_refreshes ==
    /\ disposed' = disposeAll(disposed, renderables)
    /\ children' = {}
    /\ renderables' = << >>
    /\ updateSettingsTree(renderables', config)
    /\ lastCall' = [op |-> "dispose", mapping |-> renderables]
    /\ poseCalls' = << >>
    /\ errorCalls' = << >>
    /\ UNCHANGED startVars
    /\ UNCHANGED <<userData, visible, position, transformTree, errors, config,
                   microtasks>>

\* dispose() that cancels the refresh the constructor queued.
dispose_cancelsRefresh ==
    /\ disposed' = disposeAll(disposed, renderables)
    /\ children' = {}
    /\ renderables' = << >>
    /\ microtasks' = << >>
    /\ lastCall' = [op |-> "dispose", mapping |-> renderables]
    /\ poseCalls' = << >>
    /\ errorCalls' = << >>
    /\ sinkCalls' = << >>
    /\ UNCHANGED startVars
    /\ UNCHANGED <<userData, visible, position, transformTree, errors, config,
                   nodesByKey>>

\* dispose(): dispose every renderable, drop every child, clear the mapping.
dispose ==
    /\ disposed' = disposeAll(disposed, renderables)
    /\ children' = {}
    /\ renderables' = << >>
    /\ lastCall' = [op |-> "dispose", mapping |-> renderables]
    /\ poseCalls' = << >>
    /\ errorCalls' = << >>
    /\ sinkCalls' = << >>
    /\ UNCHANGED startVars
    /\ UNCHANGED <<userData, visible, position, transformTree, errors, config,
                   nodesByKey, microtasks>>

\* removeAllRenderables() with the this.remove(renderable) call left out.
removeAllRenderables_keepsChildren ==
    /\ disposed' = disposeAll(disposed, renderables)
    /\ children' = children
    /\ renderables' = << >>
    /\ updateSettingsTree(renderables', config)
    /\ lastCall' = [op |-> "removeAllRenderables", mapping |-> renderables]
    /\ poseCalls' = << >>
    /\ errorCalls' = << >>
    /\ UNCHANGED startVars
    /\ UNCHANGED <<userData, visible, position, transformTree, errors, config,
                   microtasks>>

\* removeAllRenderables() with the settings refresh made before the mapping
\* is cleared.
removeAllRenderables_refreshesFirst ==
    /\ disposed' = disposeAll(disposed, renderables)
    /\ children' = removeChildren(children, renderables)
    /\ updateSettingsTree(renderables, config)
    /\ renderables' = << >>
    /\ lastCall' = [op |-> "removeAllRenderables", mapping |-> renderables]
    /\ poseCalls' = << >>
    /\ errorCalls' = << >>
    /\ UNCHANGED startVars
    /\ UNCHANGED <<userData, visible, position, transformTree, errors, config,
                   microtasks>>

\* removeAllRenderables() that empties the child list as dispose() does.
removeAllRenderables_emptiesChildren ==
    /\ disposed' = disposeAll(disposed, renderables)
    /\ children' = {}
    /\ renderables' = << >>
    /\ updateSettingsTree(renderables', config)
    /\ lastCall' = [op |-> "removeAllRenderables", mapping |-> renderables]
    /\ poseCalls' = << >>
    /\ errorCalls' = << >>
    /\ UNCHANGED startVars
    /\ UNCHANGED <<userData, visible, position, transformTree, errors, config,
                   microtasks>>

\* removeAllRenderables(): dispose and detach every renderable, clear the
\* mapping, then refresh the settings tree.
removeAllRenderables ==
    /\ disposed' = disposeAll(disposed, renderables)
    /\ children' = removeChildren(children, renderables)
    /\ renderables' = << >>
    /\ updateSettingsTree(renderables', config)
    /\ lastCall' = [op |-> "removeAllRenderables", mapping |-> renderables]
    /\ poseCalls' = << >>
    /\ errorCalls' = << >>
    /\ UNCHANGED startVars
    /\ UNCHANGED <<userData, visible, position, transformTree, errors, config,
                   microtasks>>

\* --------------------------------------------------------------- saveSetting
\* Paths of the panel configuration saveSetting is called with.
ConfigPaths == {<<"visible">>, <<"topics">>, <<"topics", "/a">>}

\* Values a setting is saved with; undefined and null unset it.
ConfigValues == {"true", "false"}

Nullish == {"undefined", "null"}

\* The value of a key that holds an object with no keys.
EmptyObject == "{}"

\* The configuration is a nested document, kept as its leaves: path -> value.
isPrefix(p, q) == Len(p) <= Len(q) /\ SubSeq(q, 1, Len(p)) = p

parentOf(p) == SubSeq(p, 1, Len(p) - 1)

\* lodash has(doc, p): a key exists at p (a leaf, or an object with keys below).
hasKey(doc, p) == \E q \in DOMAIN doc : isPrefix(p, q)

\* p holds an object (the root always does).
isObjectAt(doc, p) ==
    \/ p = << >>
    \/ (p \in DOMAIN doc /\ doc[p] = EmptyObject)
    \/ (p \notin DOMAIN doc /\ hasKey(doc, p))

\* lodash get(doc, p), with "absent" for a missing key and "object" for a
\* key that holds keys of its own.
valueAt(doc, p) ==
    IF p \in DOMAIN doc THEN doc[p]
    ELSE IF hasKey(doc, p) THEN "object" ELSE "absent"

\* lodash set(doc, path, value): whatever was at the path, below it, or a
\* non-object on the way to it, is replaced.
lodashSet(doc, path, value) ==
    LET kept == {q \in DOMAIN doc : ~isPrefix(path, q) /\ ~isPrefix(q, path)}
    IN [q \in kept \cup {path} |-> IF q = path THEN value ELSE doc[q]]

\* lodash unset(doc, path): deletes the key from its parent object, if any.
lodashUnset(doc, path) ==
    IF ~isObjectAt(doc, parentOf(path)) THEN doc
    ELSE LET kept == {q \in DOMAIN doc : ~isPrefix(path, q)}
             emptied == /\ parentOf(path) # << >>
                        /\ ~\E q \in kept : isPrefix(parentOf(path), q)
             leaves == IF emptied THEN kept \cup {parentOf(path)} ELSE kept
         IN [q \in leaves |-> IF q \in kept THEN doc[q] ELSE EmptyObject]

\* The mutator without the test for undefined and null: it always sets.
saveSettingDraft_alwaysSets(doc, path, value) == lodashSet(doc, path, value)

\* The mutator saveSetting hands to renderer.updateConfig().
saveSettingDraft(doc, path, value) ==
    IF value \in Nullish THEN lodashUnset(doc, path) ELSE lodashSet(doc, path, value)

\* saveSetting() with the settings refresh made before the configuration write.
saveSetting_refreshesFirst(path, value) ==
    /\ updateSettingsTree(renderables, config)
    /\ config' = saveSettingDraft(config, path, value)
    /\ lastCall' = [op |-> "saveSetting", path |-> path, value |-> value,
                    had |-> hasKey(config, path)]
    /\ poseCalls' = << >>
    /\ errorCalls' = << >>
    /\ UNCHANGED startVars
    /\ UNCHANGED <<renderables, children, userData, visible, position, disposed,
                   transformTree, errors, microtasks>>

\* saveSetting(): renderer.updateConfig(draft => set / unset), then
\* updateSettingsTree().
saveSetting(path, value) ==
    /\ config' = saveSettingDraft(config, path, value)
    /\ updateSettingsTree(renderables, config')
    /\ lastCall' = [op |-> "saveSetting", path |-> path, value |-> value,
                    had |-> hasKey(config, path)]
    /\ poseCalls' = << >>
    /\ errorCalls' = << >>
    /\ UNCHANGED startVars
    /\ UNCHANGED <<renderables, children, userData, visible, position, disposed,
                   transformTree, errors, microtasks>>

\* ------------------------------------------------------------- environment
\* What lastCall holds after a step of the environment (not a method of the class).
EnvironmentCall == [op |-> "environment"]

\* A subclass creates a renderable: this.renderables.set(key, r); this.add(r).
\* Every renderable object is created once.
addRenderable(r, ud) ==
    /\ r \notin Mapped
    /\ r \notin children
    /\ disposed[r] = 0
    /\ renderables' = Append(renderables, r)
    /\ children' = children \cup {r}
    /\ userData' = [userData EXCEPT ![r] = ud]
    /\ lastCall' = EnvironmentCall
    /\ poseCalls' = << >>
    /\ errorCalls' = << >>
    /\ sinkCalls' = << >>
    /\ UNCHANGED startVars
    /\ UNCHANGED <<visible, position, disposed, transformTree, errors, config,
                   nodesByKey, microtasks>>

\* A subclass adds a child that is not a Renderable: this.add(object).
addChild ==
    /\ OtherChild \notin children
    /\ children' = children \cup {OtherChild}
    /\ lastCall' = EnvironmentCall
    /\ poseCalls' = << >>
    /\ errorCalls' = << >>
    /\ sinkCalls' = << >>
    /\ UNCHANGED startVars
    /\ UNCHANGED <<renderables, userData, visible, position, disposed,
                   transformTree, errors, config, nodesByKey, microtasks>>

\* The user toggles a renderable's visibility: userData.settings.visible = v.
setVisible(r, v) ==
    /\ r \in Mapped
    /\ userData[r].settings.visible # v
    /\ userData' = [userData EXCEPT ![r].settings.visible = v]
    /\ lastCall' = EnvironmentCall
    /\ poseCalls' = << >>
    /\ errorCalls' = << >>
    /\ sinkCalls' = << >>
    /\ UNCHANGED startVars
    /\ UNCHANGED <<renderables, children, visible, position, disposed,
                   transformTree, errors, config, nodesByKey, microtasks>>

\* Data ingestion stores a transform sample of a frame at time t.
addTransform(frameId, t) ==
    /\ t \notin transformTree[frameId]
    /\ transformTree' = [transformTree EXCEPT ![frameId] = @ \cup {t}]
    /\ lastCall' = EnvironmentCall
    /\ poseCalls' = << >>
    /\ errorCalls' = << >>
    /\ sinkCalls' = << >>
    /\ UNCHANGED startVars
    /\ UNCHANGED <<renderables, children, userData, visible, position, disposed,
                   errors, config, nodesByKey, microtasks>>

\* The tree evicts the sample of a frame at time t (its storage is bounded).
dropTransform(frameId, t) ==
    /\ t \in transformTree[frameId]
    /\ transformTree' = [transformTree EXCEPT ![frameId] = @ \ {t}]
    /\ lastCall' = EnvironmentCall
    /\ poseCalls' = << >>
    /\ errorCalls' = << >>
    /\ sinkCalls' = << >>
    /\ UNCHANGED startVars
    /\ UNCHANGED <<renderables, children, userData, visible, position, disposed,
                   errors, config, nodesByKey, microtasks>>

\* A subclass reports an error of its own at a settings path:
\* renderer.settings.errors.add(path, INVALID_MESSAGE, message).
reportError(path) ==
    /\ ~hasError(errors, path, INVALID_MESSAGE)
    /\ errors' = errorsAdd(errors, path, INVALID_MESSAGE, "invalid message")
    /\ lastCall' = EnvironmentCall
    /\ poseCalls' = << >>
    /\ errorCalls' = << >>
    /\ sinkCalls' = << >>
    /\ UNCHANGED startVars
    /\ UNCHANGED <<renderables, children, userData, visible, position, disposed,
                   transformTree, config, nodesByKey, microtasks>>

\* ------------------------------------------------------------ start screen
\* SidebarItems is remounted (the Refresh button) at most MaxRefresh times.
MaxRefresh == 1

\* At most MaxImports layout imports are in flight at a time.
MaxImports == 2

\* useState<string | undefined>(): no value.
Undefined == "undefined"

\* What selectedSource holds before selectSource() was ever called.
NoSource ==
    [id |-> "none", type |-> "none",
     url |-> [scheme |-> "none", hostname |-> "none", port |-> "none"]]

\* The letters and digits that occur in robot names: what /[^a-zA-Z0-9]/ keeps.
AlphaNumerics == {"r", "1", "2"}

\* The running instances running.json may list (ArenaIntance); a robot name is
\* kept as its characters.  The file is not validated: a name may be empty.
ArenaInstances ==
    {[name |-> "arena-1", robot |-> <<"r", "1">>, secure |-> FALSE,
      hostname |-> "sim-1", port |-> "8765"],
     [name |-> "arena-2", robot |-> <<"r", "_", "2">>, secure |-> TRUE,
      hostname |-> "sim-2", port |-> "8765"],
     [name |-> "", robot |-> <<"r", "-", "1">>, secure |-> FALSE,
      hostname |-> "sim-3", port |-> "8765"]}

\* The data sources the application may be built with.
WithWebSocket ==
    {[type |-> "connection", id |-> "foxglove-websocket"],
     [type |-> "file", id |-> "mcap-local-file"]}

WithoutWebSocket ==
    {[type |-> "connection", id |-> "rosbridge-websocket"],
     [type |-> "file", id |-> "mcap-local-file"]}

SourceLists == {WithWebSocket, WithoutWebSocket}

\* btoa(name): the Base64 text of the name; the empty name gives the empty text.
btoa(name) ==
    CASE name = "arena-1" -> "YXJlbmEtMQ=="
      [] name = "arena-2" -> "YXJlbmEtMg=="
      [] name = "" -> ""

\* if (loadingInstance): undefined and the empty string are falsy.
truthy(value) == value # Undefined /\ value # ""

\* instance.robot.replace(/[^a-zA-Z0-9]/g, "")
sanitizeRobot(robot) == SelectSeq(robot, LAMBDA c : c \in AlphaNumerics)

\* `${getHostOrigin()}/foxglove-assets/robot/${robot}/layout.json`
layoutUrl(instance) ==
    [origin |-> "hostOrigin", robot |-> sanitizeRobot(instance.robot)]

\* (instance.secure ? "wss://" : "ws://") + instance.hostname + ":" + instance.port
connectionUrl(instance) ==
    [scheme |-> IF instance.secure THEN "wss://" ELSE "ws://",
     hostname |-> instance.hostname, port |-> instance.port]

\* availableSources.find(source => source.type === "connection" &&
\*                                 source.id === "foxglove-websocket")
foxgloveWebSocketSources(sources) ==
    {source \in sources :
        source.type = "connection" /\ source.id = "foxglove-websocket"}

\* SidebarItems mounted under Start, with the sources the application has.
startMounted(sources) ==
    /\ availableSources = sources
    /\ arenaRunningInstances = {}
    /\ loadingInstance = Undefined
    /\ boundLoadingInstance = Undefined
    /\ sidebarItemsKey = 0
    /\ imports = << >>
    /\ selectedSource = NoSource

\* The fetch of running.json resolves: setArenaRunningInstances(data).
fetchRunning(instances) ==
    /\ arenaRunningInstances = {}
    /\ arenaRunningInstances' = instances
    /\ lastCall' = [op |-> "fetchRunning"]
    /\ UNCHANGED <<availableSources, loadingInstance, boundLoadingInstance,
                   sidebarItemsKey, imports, selectedSource>>
    /\ UNCHANGED sceneVars

\* A click on an instance: importRobotAndConnect(instance), as the rendered
\* handler runs it.  React renders the state the handler set before the next
\* event is handled, so the step ends with the handler of the new render.
importRobotAndConnect(instance) ==
    /\ instance \in arenaRunningInstances
    /\ Len(imports) < MaxImports
    /\ IF truthy(boundLoadingInstance)
       THEN /\ lastCall' = [op |-> "importRobotAndConnect",
                            key |-> btoa(instance.name), started |-> FALSE]
            /\ UNCHANGED startVars
       ELSE /\ loadingInstance' = btoa(instance.name)
            /\ boundLoadingInstance' = loadingInstance'
            /\ imports' = Append(imports,
                   [mount |-> sidebarItemsKey, instance |-> instance,
                    url |-> layoutUrl(instance)])
            /\ lastCall' = [op |-> "importRobotAndConnect",
                            key |-> btoa(instance.name), started |-> TRUE]
            /\ UNCHANGED <<availableSources, arenaRunningInstances,
                           sidebarItemsKey, selectedSource>>
    /\ UNCHANGED sceneVars

\* The sequence without its k-th element.
without(seq, k) == SubSeq(seq, 1, k - 1) \o SubSeq(seq, k + 1, Len(seq))

\* The k-th import in flight completes and calls the callback
\* importRobotAndConnect gave it.  A state setter of an unmounted component
\* does nothing.
importCallback(k) ==
    LET import == imports[k]
        found == foxgloveWebSocketSources(availableSources) # {}
    IN /\ imports' = without(imports, k)
       /\ IF ~found
          THEN UNCHANGED <<selectedSource, loadingInstance>>
          ELSE /\ selectedSource' =
                      [id |-> "foxglove-websocket", type |-> "connection",
                       url |-> connectionUrl(import.instance)]
               /\ loadingInstance' =
                      IF import.mount = sidebarItemsKey THEN Undefined
                      ELSE loadingInstance
       /\ lastCall' = [op |-> "importCallback", mount |-> import.mount,
                       key |-> btoa(import.instance.name), found |-> found]
       /\ UNCHANGED <<availableSources, arenaRunningInstances,
                      boundLoadingInstance, sidebarItemsKey>>
       /\ UNCHANGED sceneVars

\* The k-th import in flight ends without calling the callback (the layout
\* could not be fetched).
importFailed(k) ==
    /\ imports' = without(imports, k)
    /\ lastCall' = [op |-> "importFailed", mount |-> imports[k].mount,
                    key |-> btoa(imports[k].instance.name)]
    /\ UNCHANGED <<availableSources, arenaRunningInstances, loadingInstance,
                   boundLoadingInstance, sidebarItemsKey, selectedSource>>
    /\ UNCHANGED sceneVars

\* React renders SidebarItems after the callback changed its state:
\* useCallback(..., [setLoadingInstance, loadingInstance]) makes a new handler.
render ==
    /\ boundLoadingInstance # loadingInstance
    /\ boundLoadingInstance' = loadingInstance
    /\ lastCall' = [op |-> "render"]
    /\ UNCHANGED <<availableSources, arenaRunningInstances, loadingInstance,
                   sidebarItemsKey, imports, selectedSource>>
    /\ UNCHANGED sceneVars

\* The Refresh button: setSidebarItemsKey(sidebarItemsKey + 1) mounts a new
\* SidebarItems, with its initial state; the imports in flight go on.
refresh ==
    /\ sidebarItemsKey < MaxRefresh
    /\ sidebarItemsKey' = sidebarItemsKey + 1
    /\ arenaRunningInstances' = {}
    /\ loadingInstance' = Undefined
    /\ boundLoadingInstance' = Undefined
    /\ lastCall' = [op |-> "refresh"]
    /\ UNCHANGED <<availableSources, imports, selectedSource>>
    /\ UNCHANGED sceneVars

\* ------------------------------------------------------------ specifications
\* The state a constructor without the queueMicrotask() call would leave.
Init_withoutRefresh ==
    /\ renderables = << >>
    /\ children = {}
    /\ userData = [r \in RenderableIds |-> DefaultUserData]
    /\ visible = [r \in RenderableIds |-> TRUE]
    /\ position = [r \in RenderableIds |-> DefaultPose]
    /\ disposed = [r \in RenderableIds |-> 0]
    /\ transformTree = [f \in TreeFrames |-> IF f \in StreamedFrames THEN {} ELSE Times]
    /\ errors = NoErrors
    /\ config = << >>
    /\ nodesByKey = (OtherKey :> <<"grid">>)
    /\ microtasks = << >>
    /\ lastCall = [op |-> "constructor"]
    /\ poseCalls = << >>
    /\ errorCalls = << >>
    /\ sinkCalls = << >>
    /\ startMounted(WithWebSocket)

\* The state the constructor leaves: an empty extension, the settings refresh
\* queued as a microtask.
sceneConstructed ==
    /\ renderables = << >>
    /\ children = {}
    /\ userData = [r \in RenderableIds |-> DefaultUserData]
    /\ visible = [r \in RenderableIds |-> TRUE]
    /\ position = [r \in RenderableIds |-> DefaultPose]
    /\ disposed = [r \in RenderableIds |-> 0]
    /\ transformTree = [f \in TreeFrames |-> IF f \in StreamedFrames THEN {} ELSE Times]
    /\ errors = NoErrors
    /\ config = << >>
    /\ nodesByKey = (OtherKey :> <<"grid">>)
    /\ microtasks = <<"updateSettingsTree">>
    /\ lastCall = [op |-> "constructor"]
    /\ poseCalls = << >>
    /\ errorCalls = << >>
    /\ sinkCalls = << >>

\* The program after start-up: the extension constructed, the start screen
\* mounted.
Init == sceneConstructed /\ startMounted(WithWebSocket)

\* The userData a renderable is created with, in the frame-loop specification.
FrameUserData(r) ==
    {[settingsPath |-> p,
      settings |-> [visible |-> TRUE, frameLocked |-> fl],
      messageTime |-> 1,
      frameId |-> "lidar"] :
        p \in (IF r = "a" THEN {<<"topics", "/a">>} ELSE Paths),
        fl \in (IF r = "a" THEN {"unset", "false"} ELSE {"true"})}

\* The render loop runs in a task of its own, after the microtasks queued so far.
frameTick(currentTime, renderFrameId, fixedFrameId) ==
    /\ microtasks = << >>
    /\ startFrame(currentTime, renderFrameId, fixedFrameId)

\* The frame loop: renderables appear, are toggled, the tree changes, frames run.
NextFrame ==
    \/ runMicrotask
    \/ \E r \in RenderableIds : \E ud \in FrameUserData(r) : addRenderable(r, ud)
    \/ \E r \in RenderableIds, v \in BOOLEAN : setVisible(r, v)
    \/ \E f \in StreamedFrames, t \in Times : addTransform(f, t)
    \/ \E f \in StreamedFrames, t \in Times : dropTransform(f, t)
    \/ \E t \in Times, rf \in RenderFrames : frameTick(t, rf, FixedFrame)

SpecFrame == Init /\ [][NextFrame]_vars

\* The userData a renderable is created with, in the lifecycle specification.
LifeUserData(r) ==
    {[settingsPath |-> IF r = "a" THEN <<"topics", "/a">> ELSE <<"topics", "/b">>,
      settings |-> [visible |-> TRUE, frameLocked |-> "unset"],
      messageTime |-> 1,
      frameId |-> "lidar"]}

\* The lifecycle: renderables and other children are added, settings are saved,
\* frames run, the extension is reset (seek) and torn down.  dispose() and
\* removeAllRenderables() may be called by the code that constructed the
\* extension, before the queued microtask has run.
NextLife ==
    \/ runMicrotask
    \/ \E r \in RenderableIds : \E ud \in LifeUserData(r) : addRenderable(r, ud)
    \/ addChild
    \/ \E t \in Times, rf \in RenderFrames : frameTick(t, rf, FixedFrame)
    \/ \E p \in ConfigPaths, v \in ConfigValues \cup Nullish : saveSetting(p, v)
    \/ removeAllRenderables
    \/ dispose

SpecLife == Init /\ [][NextLife]_vars

\* The lifecycle under the host's scheduling: a queued microtask is run once
\* the current task has returned, it is never left in the queue for ever.
SpecLifeFair == Init /\ [][NextLife]_vars /\ WF_vars(runMicrotask)

\* The userData a renderable is created with, in the error specification.
ErrorsUserData(r) ==
    {[settingsPath |-> p,
      settings |-> [visible |-> TRUE, frameLocked |-> "unset"],
      messageTime |-> 1,
      frameId |-> "lidar"] :
        p \in (IF r = "a" THEN {<<"topics", "/a">>} ELSE Paths)}

\* The error sink shared with subclasses: renderables appear and are toggled,
\* samples arrive, subclasses report errors of their own, frames run.
NextErrors ==
    \/ runMicrotask
    \/ \E r \in RenderableIds : \E ud \in ErrorsUserData(r) : addRenderable(r, ud)
    \/ \E r \in RenderableIds, v \in BOOLEAN : setVisible(r, v)
    \/ \E f \in StreamedFrames, t \in Times : addTransform(f, t)
    \/ \E p \in Paths : reportError(p)
    \/ \E t \in Times : frameTick(t, FixedFrame, FixedFrame)

SpecErrors == Init /\ [][NextErrors]_vars

\* Teardown and reuse: renderables are created (the second one at either
\* path), toggled, processed by frames, and removed by removeAllRenderables()
\* or dispose(); no sample ever arrives for their frame.
NextTeardown ==
    \/ runMicrotask
    \/ \E r \in RenderableIds : \E ud \in ErrorsUserData(r) : addRenderable(r, ud)
    \/ \E r \in RenderableIds, v \in BOOLEAN : setVisible(r, v)
    \/ \E t \in Times, rf \in RenderFrames : frameTick(t, rf, FixedFrame)
    \/ removeAllRenderables
    \/ dispose

SpecTeardown == Init /\ [][NextTeardown]_vars

\* The program after start-up, with either list of data sources.
InitStart == sceneConstructed /\ \E sources \in SourceLists : startMounted(sources)

\* The start screen: running.json arrives, instances are clicked, imports
\* complete or fail, React renders, the user refreshes the sidebar.
NextStart ==
    \/ \E instances \in (SUBSET ArenaInstances) \ {{}} : fetchRunning(instances)
    \/ \E instance \in ArenaInstances : importRobotAndConnect(instance)
    \/ \E k \in DOMAIN imports : importCallback(k)
    \/ \E k \in DOMAIN imports : importFailed(k)
    \/ render
    \/ refresh

SpecStart == InitStart /\ [][NextStart]_vars

\* ------------------------------------------------------------------ claims
\* Vocabulary of the claims about startFrame.  poseCalls and errorCalls hold
\* what the last startFrame did; userData and transformTree are what it read.
afterFrame == lastCall.op = "startFrame"

pathOf(r) == userData[r].settingsPath

shown(r) == userData[r].settings.visible

callsFor(r) == {i \in DOMAIN poseCalls : poseCalls[i].renderable = r}

resolved(r) == \E i \in callsFor(r) : poseCalls[i].updated

failed(r) == \E i \in callsFor(r) : ~poseCalls[i].updated

indexOf(r) == CHOOSE i \in DOMAIN renderables : renderables[i] = r

\* The renderables the loop reaches after r that report at the path of r.
laterOnPath(r) ==
    {q \in Mapped : pathOf(q) = pathOf(r) /\ indexOf(q) > indexOf(r)}

\* The other renderables of the mapping that report at the path of r.
othersOnPath(r) == {q \in Mapped \ {r} : pathOf(q) = pathOf(r)}

missingTransformAt(path) == hasError(errors, path, MISSING_TRANSFORM)

\* C1 as stated: after startFrame, an invisible renderable of the mapping got
\* no updatePose() call and there is no MISSING_TRANSFORM error at its path.
C1_HiddenPathHasNoError ==
    afterFrame =>
        \A r \in Mapped :
            ~shown(r) => (callsFor(r) = {} /\ ~missingTransformAt(pathOf(r)))

\* C1 amended: after startFrame, an invisible renderable of the mapping got no
\* updatePose() call, its path was cleared, and a MISSING_TRANSFORM error is at
\* its path only if a renderable later in the mapping with the same path is
\* visible and failed to resolve.
C1_HiddenSkippedAndCleared ==
    afterFrame =>
        \A r \in Mapped :
            ~shown(r) =>
                /\ callsFor(r) = {}
                /\ \E i \in DOMAIN errorCalls :
                       errorCalls[i].fn = "clearPath" /\ errorCalls[i].path = pathOf(r)
                /\ missingTransformAt(pathOf(r)) =>
                       \E q \in laterOnPath(r) : failed(q)

\* An invisible renderable whose earlier error the frame cleared, though the
\* tree still holds no sample for its frame.
C1_Witness ==
    /\ afterFrame
    /\ \E r \in Mapped :
          /\ ~shown(r)
          /\ othersOnPath(r) = {}
          /\ ~missingTransformAt(pathOf(r))
          /\ transformTree[userData[r].frameId] = {}
          /\ \E i \in DOMAIN errorCalls :
                /\ errorCalls[i].fn = "clearPath"
                /\ errorCalls[i].path = pathOf(r)
                /\ errorCalls[i].had

\* C2: after startFrame, every visible renderable got exactly one updatePose()
\* call, whose destination time is currentTime and whose source time is the
\* renderable's messageTime when frameLocked is false and currentTime when it
\* is true or unset.
C2_SourceTime ==
    afterFrame =>
        \A r \in Mapped :
            shown(r) =>
                /\ Cardinality(callsFor(r)) = 1
                /\ \A i \in callsFor(r) :
                      /\ poseCalls[i].dstTime = lastCall.currentTime
                      /\ poseCalls[i].srcTime =
                            IF userData[r].settings.frameLocked = "false"
                            THEN userData[r].messageTime
                            ELSE lastCall.currentTime

\* A frame at a time other than the message time, with an unlocked renderable
\* and a locked one, both visible.
C2_Witness ==
    /\ afterFrame
    /\ \E r, q \in Mapped :
          /\ shown(r) /\ shown(q)
          /\ userData[r].settings.frameLocked = "false"
          /\ userData[r].messageTime # lastCall.currentTime
          /\ userData[q].settings.frameLocked = "true"

\* The message startFrame builds for renderable r in the frame that ran last.
messageOf(r) ==
    missingTransformMessage(lastCall.renderFrameId, lastCall.fixedFrameId,
                            userData[r].frameId)

\* C3 as stated: after startFrame, a visible renderable whose pose did not
\* resolve has a MISSING_TRANSFORM error at its path, with the message built
\* from the render frame, the fixed frame and its frameId.
C3_FailureAlwaysReported ==
    afterFrame =>
        \A r \in Mapped :
            (shown(r) /\ failed(r)) =>
                /\ missingTransformAt(pathOf(r))
                /\ errors[pathOf(r)][MISSING_TRANSFORM] = messageOf(r)

\* C3 amended: for a visible renderable whose pose did not resolve, startFrame
\* adds the error at its path, and after startFrame the error is at the path,
\* with the message built from the render frame, the fixed frame and its
\* frameId, provided no renderable later in the mapping has the same path.
C3_FailureReported ==
    afterFrame =>
        \A r \in Mapped :
            (shown(r) /\ failed(r)) =>
                /\ \E i \in DOMAIN errorCalls :
                       /\ errorCalls[i].fn = "add"
                       /\ errorCalls[i].renderable = r
                       /\ errorCalls[i].path = pathOf(r)
                /\ laterOnPath(r) = {} =>
                       /\ missingTransformAt(pathOf(r))
                       /\ errors[pathOf(r)][MISSING_TRANSFORM] = messageOf(r)

\* A failed renderable, alone on its path, in a frame whose render frame is not
\* the fixed frame.
C3_Witness ==
    /\ afterFrame
    /\ lastCall.renderFrameId # lastCall.fixedFrameId
    /\ \E r \in Mapped :
          /\ shown(r) /\ failed(r) /\ othersOnPath(r) = {}
          /\ missingTransformAt(pathOf(r))

\* C4 as stated: after startFrame, a visible renderable whose pose resolved has
\* no MISSING_TRANSFORM error at its path.
C4_SuccessAlwaysClears ==
    afterFrame =>
        \A r \in Mapped : (shown(r) /\ resolved(r)) => ~missingTransformAt(pathOf(r))

\* C4 amended: after startFrame, a visible renderable whose pose resolved, and
\* that no renderable later in the mapping shares its settings path with, has
\* no MISSING_TRANSFORM error at its path, whatever was reported before; and a
\* pose resolves exactly when the tree holds the samples the call asks for.
C4_Recovery ==
    afterFrame =>
        /\ \A r \in Mapped :
              (shown(r) /\ resolved(r) /\ laterOnPath(r) = {}) =>
                  ~missingTransformAt(pathOf(r))
        /\ \A i \in DOMAIN poseCalls :
              poseCalls[i].updated <=>
                  /\ hasTransform(transformTree, poseCalls[i].srcFrameId,
                                  poseCalls[i].fixedFrameId, poseCalls[i].srcTime)
                  /\ hasTransform(transformTree, poseCalls[i].renderFrameId,
                                  poseCalls[i].fixedFrameId, poseCalls[i].dstTime)

\* A renderable alone on its path whose earlier error this frame took back.
C4_Witness ==
    /\ afterFrame
    /\ \E r \in Mapped :
          /\ shown(r) /\ resolved(r) /\ othersOnPath(r) = {}
          /\ ~missingTransformAt(pathOf(r))
          /\ \E i \in DOMAIN errorCalls :
                /\ errorCalls[i].fn = "remove"
                /\ errorCalls[i].path = pathOf(r)
                /\ errorCalls[i].had

\* What one iteration of the loop alone makes of renderable r, from the state
\* the frame starts in.
soloStep(r, currentTime, renderFrameId, fixedFrameId) ==
    frameStep(FrameState(visible, position, errors, << >>, << >>), r,
              userData[r], transformTree, currentTime, renderFrameId, fixedFrameId)

\* The number of renderables the last frame went through.
processedCount ==
    Len(poseCalls) +
    Cardinality({i \in DOMAIN errorCalls : errorCalls[i].fn = "clearPath"})

\* The renderable ends the step with the visible flag and the pose one
\* iteration alone would give it.
endsAsAlone(r, solo) ==
    /\ visible'[r] = solo.visible[r]
    /\ position'[r] = solo.position[r]

\* C5 as stated: in a frame whose renderables are all visible, every renderable
\* is processed and ends with the visible flag, the pose and the error entry at
\* its path that it would get if it were processed alone, whether the other
\* renderables resolve or fail.  (Only startFrame leaves lastCall.op at
\* "startFrame", with its arguments.)
C5_OthersNeverMatter ==
    [][(lastCall'.op = "startFrame" /\ \A q \in Mapped : shown(q)) =>
          /\ processedCount' = Len(renderables)
          /\ \A r \in Mapped :
                LET solo == soloStep(r, lastCall'.currentTime,
                                     lastCall'.renderFrameId, lastCall'.fixedFrameId)
                IN /\ endsAsAlone(r, solo)
                   /\ errors'[pathOf(r)] = solo.errors[pathOf(r)]]_vars

\* C5 amended: in every frame, every renderable is processed and ends with the
\* visible flag and the pose it would get if it were processed alone; the error
\* entry at its path is also the same, provided no other renderable of the
\* mapping has the same settings path.
C5_Independence ==
    [][lastCall'.op = "startFrame" =>
          /\ processedCount' = Len(renderables)
          /\ \A r \in Mapped :
                LET solo == soloStep(r, lastCall'.currentTime,
                                     lastCall'.renderFrameId, lastCall'.fixedFrameId)
                IN /\ endsAsAlone(r, solo)
                   /\ othersOnPath(r) = {} =>
                          errors'[pathOf(r)] = solo.errors[pathOf(r)]]_vars

\* A frame in which the first renderable failed and a later one, on another
\* path, resolved and got its pose.
C5_Witness ==
    /\ afterFrame
    /\ \E r, q \in Mapped :
          /\ indexOf(r) < indexOf(q)
          /\ pathOf(r) # pathOf(q)
          /\ failed(r) /\ missingTransformAt(pathOf(r))
          /\ resolved(q) /\ ~missingTransformAt(pathOf(q))
          /\ position[q] # DefaultPose

\* C6: a startFrame that follows a startFrame with the same arguments, with
\* nothing in between (same tree, same settings), changes no pose, no visible
\* flag and nothing in the error sink.  (lastCall.repeat marks such a call.)
C6_Idempotent ==
    [][(lastCall'.op = "startFrame" /\ lastCall'.repeat) =>
          /\ position' = position
          /\ visible' = visible
          /\ errors' = errors]_vars

\* The second of two identical frames, with a hidden renderable, a failed one
\* and an error in the sink.
C6_Witness ==
    /\ afterFrame
    /\ lastCall.repeat
    /\ \E r \in Mapped : ~shown(r)
    /\ \E r \in Mapped : failed(r) /\ missingTransformAt(pathOf(r))

\* C7: after dispose(), the mapping is empty, and every renderable that was in
\* the mapping has been disposed and is no child of the extension.
C7_DisposeEmpties ==
    lastCall.op = "dispose" =>
        /\ renderables = << >>
        /\ \A r \in Range(lastCall.mapping) : disposed[r] >= 1 /\ r \notin children

\* dispose() of an extension that held two renderables.
C7_Witness ==
    /\ lastCall.op = "dispose"
    /\ Len(lastCall.mapping) = Cardinality(RenderableIds)
    /\ \A r \in RenderableIds : disposed[r] = 1

\* C8: in every state, every renderable of the mapping is a child of the
\* extension, and a renderable that was disposed is neither a child nor in the
\* mapping.
C8_MappingAndChildren ==
    /\ Mapped \subseteq children
    /\ \A r \in RenderableIds :
          disposed[r] > 0 => (r \notin children /\ r \notin Mapped)

\* One renderable removed by removeAllRenderables(), another added afterwards,
\* and a frame run on it.
C8_Witness ==
    /\ afterFrame
    /\ \E r, q \in RenderableIds :
          /\ disposed[r] > 0
          /\ q \in Mapped /\ q \in children /\ callsFor(q) # {}
    /\ nodesByKey[ExtensionId] = << >>
    /\ OtherChild \in children

\* C9: after removeAllRenderables(), every renderable that was in the mapping
\* has been disposed and detached, the mapping is empty, and the one push to
\* the settings sink, under the extension's id, carried the nodes computed
\* from the empty mapping.
C9_RemoveAllThenRefresh ==
    lastCall.op = "removeAllRenderables" =>
        /\ renderables = << >>
        /\ \A r \in Range(lastCall.mapping) : disposed[r] >= 1 /\ r \notin children
        /\ Len(sinkCalls) = 1
        /\ sinkCalls[1].key = ExtensionId
        /\ sinkCalls[1].mapping = << >>
        /\ sinkCalls[1].nodes = settingsNodes(<< >>, config)
        /\ nodesByKey[ExtensionId] = sinkCalls[1].nodes

\* removeAllRenderables() of an extension that held two renderables and
\* another child, which stays.
C9_Witness ==
    /\ lastCall.op = "removeAllRenderables"
    /\ Len(lastCall.mapping) = Cardinality(RenderableIds)
    /\ children = {OtherChild}
    /\ Len(sinkCalls) = 1

\* Two configuration paths neither of which leads to the other.
unrelated(p, q) == ~isPrefix(p, q) /\ ~isPrefix(q, p)

\* C10 as stated: saveSetting(path, value) leaves value at the path when value
\* is neither undefined nor null and no key at the path when it is, and every
\* key the configuration held at another path is as before.
C10_OtherPathsUntouched ==
    [][\A p \in ConfigPaths, v \in ConfigValues \cup Nullish :
          saveSetting(p, v) =>
              /\ v \notin Nullish => valueAt(config', p) = v
              /\ v \in Nullish => ~hasKey(config', p)
              /\ \A q \in ConfigPaths \ {p} :
                    hasKey(config, q) => valueAt(config', q) = valueAt(config, q)]_vars

\* C10 amended: the same, with the keys unchanged at the other paths that
\* neither lead to the path nor lie below it.
C10_SaveSetting ==
    [][\A p \in ConfigPaths, v \in ConfigValues \cup Nullish :
          saveSetting(p, v) =>
              /\ v \notin Nullish => valueAt(config', p) = v
              /\ v \in Nullish => ~hasKey(config', p)
              /\ \A q \in ConfigPaths :
                    unrelated(p, q) => valueAt(config', q) = valueAt(config, q)]_vars

\* saveSetting(path, undefined) on a path that held a key, with a key at an
\* unrelated path kept.
C10_Witness ==
    /\ lastCall.op = "saveSetting"
    /\ lastCall.value = "undefined"
    /\ lastCall.had
    /\ ~hasKey(config, lastCall.path)
    /\ \E q \in DOMAIN config : unrelated(q, lastCall.path)

\* C11: saveSetting() makes exactly one push to the settings sink, under the
\* extension's id, and the nodes pushed are computed from the configuration
\* that already holds the saved (or unset) value.
C11_WriteThenRefresh ==
    lastCall.op = "saveSetting" =>
        /\ Len(sinkCalls) = 1
        /\ sinkCalls[1].key = ExtensionId
        /\ sinkCalls[1].config = config
        /\ sinkCalls[1].nodes = settingsNodes(renderables, config)
        /\ nodesByKey[ExtensionId] = sinkCalls[1].nodes
        /\ lastCall.value \notin Nullish =>
               valueAt(sinkCalls[1].config, lastCall.path) = lastCall.value
        /\ lastCall.value \in Nullish => ~hasKey(sinkCalls[1].config, lastCall.path)

\* A saveSetting() that set a value at a path that held no key, with a
\* renderable in the mapping: the push carried the configuration with the value.
C11_Witness ==
    /\ lastCall.op = "saveSetting"
    /\ lastCall.value \in ConfigValues
    /\ ~lastCall.had
    /\ Len(sinkCalls) = 1
    /\ valueAt(sinkCalls[1].config, lastCall.path) = lastCall.value
    /\ renderables # << >>

C13_PoseKept ==
    [][lastCall'.op = "startFrame" =>
          \A r \in RenderableIds :
              position'[r] # position[r] =>
                  /\ r \in Mapped
                  /\ shown(r)
                  /\ \E i \in DOMAIN poseCalls' :
                        /\ poseCalls'[i].renderable = r
                        /\ poseCalls'[i].updated
                        /\ position'[r].srcTime = poseCalls'[i].srcTime
                        /\ position'[r].dstTime = poseCalls'[i].dstTime]_vars

\* After a frame, a renderable whose resolution failed and an invisible one
\* both hold the pose an earlier frame gave them, though the frame ran at
\* another time.
C13_Witness ==
    /\ afterFrame
    /\ \E r, q \in Mapped :
          /\ shown(r) /\ failed(r)
          /\ position[r] # DefaultPose
          /\ position[r].dstTime # lastCall.currentTime
          /\ ~shown(q)
          /\ position[q] # DefaultPose
          /\ position[q].dstTime # lastCall.currentTime
          /\ lastCall.currentTime \in transformTree[userData[q].frameId]

\* The add() calls of the last frame that found a MISSING_TRANSFORM error
\* already at the path.
repeatedAdds == {i \in DOMAIN errorCalls : errorCalls[i].fn = "add" /\ errorCalls[i].had}

\* The number of MISSING_TRANSFORM errors the sink holds at a path.
missingTransformCount(path) ==
    Cardinality({k \in DOMAIN errors[path] : k = MISSING_TRANSFORM})

\* C14 as stated: after a startFrame in which a renderable failed to resolve
\* while a MISSING_TRANSFORM error was already at its path, the sink holds
\* exactly one MISSING_TRANSFORM error at the path, with the message of this
\* frame.
C14_AlwaysLatestMessage ==
    afterFrame =>
        \A i \in repeatedAdds :
            LET r == errorCalls[i].renderable
            IN /\ missingTransformCount(pathOf(r)) = 1
               /\ errors[pathOf(r)][MISSING_TRANSFORM] = messageOf(r)

\* C14 amended: the same, for a renderable that no renderable later in the
\* mapping shares its settings path with; at every path the sink never holds
\* more than one MISSING_TRANSFORM error.
C14_LatestMessage ==
    /\ \A p \in Paths : missingTransformCount(p) <= 1
    /\ afterFrame =>
           \A i \in repeatedAdds :
               LET r == errorCalls[i].renderable
               IN laterOnPath(r) = {} =>
                      /\ missingTransformCount(pathOf(r)) = 1
                      /\ errors[pathOf(r)][MISSING_TRANSFORM] = messageOf(r)

\* A renderable alone on its path failed again, in a frame with another render
\* frame than the frame that reported the error: the message was replaced.
C14_Witness ==
    /\ afterFrame
    /\ \E i \in repeatedAdds :
          /\ errorCalls[i].replaced
          /\ othersOnPath(errorCalls[i].renderable) = {}
          /\ errors[errorCalls[i].path][MISSING_TRANSFORM] =
                 messageOf(errorCalls[i].renderable)

\* The methods that dispose the renderables of the mapping.
Disposers == {"dispose", "removeAllRenderables"}

\* C15: no renderable is ever disposed more than once, and a dispose() that
\* follows dispose() or removeAllRenderables(), or a removeAllRenderables() that
\* follows dispose(), disposes nothing and leaves the mapping and the child
\* list empty.
C15_DisposeOnce ==
    [][/\ \A r \in RenderableIds : disposed'[r] <= 1
       /\ (/\ lastCall.op \in Disposers
           /\ lastCall'.op \in Disposers
           /\ "dispose" \in {lastCall.op, lastCall'.op}) =>
              /\ disposed' = disposed
              /\ renderables' = << >>
              /\ children' = {}]_vars

\* A dispose() that found the mapping empty, both renderables having been
\* disposed by an earlier call.
C15_Witness ==
    /\ lastCall.op = "dispose"
    /\ lastCall.mapping = << >>
    /\ \A r \in RenderableIds : disposed[r] = 1
    /\ renderables = << >>
    /\ children = {}

\* C16: startFrame leaves the Transform Tree, the mapping, the child list, the
\* configuration and the nodes of the settings sink as they were, makes no
\* push to the sink, and does not touch userData or dispose anything: only
\* visible flags, poses and the error sink may differ after it.
C16_FrameReadOnly ==
    [][lastCall'.op = "startFrame" =>
          /\ transformTree' = transformTree
          /\ renderables' = renderables
          /\ children' = children
          /\ config' = config
          /\ nodesByKey' = nodesByKey
          /\ sinkCalls' = << >>
          /\ userData' = userData
          /\ disposed' = disposed]_vars

\* A frame over a tree that holds a sample at one time only: one renderable
\* resolved, another failed, and the tree, the mapping and the sink are intact.
C16_Witness ==
    /\ afterFrame
    /\ \E t \in Times : transformTree["lidar"] = {t}
    /\ \E r, q \in Mapped : resolved(r) /\ failed(q)
    /\ Mapped \subseteq children
    /\ nodesByKey[ExtensionId] = settingsNodes(renderables, config)
    /\ sinkCalls = << >>

\* No two renderables of the mapping report at the same settings path.
distinctPaths == \A r, q \in Mapped : pathOf(r) = pathOf(q) => r = q

\* C17: after startFrame, when the renderables of the mapping have pairwise
\* distinct settings paths, a MISSING_TRANSFORM error is at the path of a
\* renderable exactly when the renderable is visible and its pose did not
\* resolve in that frame, whatever the order of the mapping and whatever the
\* sink held before the frame.
C17_ErrorIffFailed ==
    (afterFrame /\ distinctPaths) =>
        \A r \in Mapped :
            missingTransformAt(pathOf(r)) <=> (shown(r) /\ failed(r))

\* Two renderables on distinct paths: the first failed and has the error, the
\* second, reached later, resolved and lost the error an earlier frame left.
C17_Witness ==
    /\ afterFrame
    /\ distinctPaths
    /\ \E r, q \in Mapped :
          /\ indexOf(r) < indexOf(q)
          /\ shown(r) /\ failed(r) /\ missingTransformAt(pathOf(r))
          /\ shown(q) /\ resolved(q) /\ ~missingTransformAt(pathOf(q))
          /\ \E i \in DOMAIN errorCalls :
                /\ errorCalls[i].fn = "remove"
                /\ errorCalls[i].path = pathOf(q)
                /\ errorCalls[i].had

\* The frame-local state in which the loop of startFrame reaches renderable r.
reachedState(r, currentTime, renderFrameId, fixedFrameId) ==
    frameLoop(FrameState(visible, position, errors, << >>, << >>),
              SubSeq(renderables, 1, indexOf(r) - 1), userData, transformTree,
              currentTime, renderFrameId, fixedFrameId)

\* The errors at a path that are not of the MISSING_TRANSFORM kind.
otherKinds(errs, path) ==
    [k \in (DOMAIN errs[path]) \ {MISSING_TRANSFORM} |-> errs[path][k]]

\* C18: the iteration of startFrame for an invisible renderable leaves no
\* error of any kind at its path; the iteration for a visible renderable leaves
\* the errors of the other kinds at its path as they were; neither touches
\* another path; and what the iteration of the last renderable on a path
\* leaves at the path is what the sink holds after startFrame.  Over the whole
\* frame: no error of another kind is at the path of an invisible renderable
\* afterwards, and the errors of the other kinds at a path whose renderables
\* are all visible are as before.
C18_KindsTouched ==
    [][lastCall'.op = "startFrame" =>
          \A r \in Mapped :
              LET before == reachedState(r, lastCall'.currentTime,
                                         lastCall'.renderFrameId,
                                         lastCall'.fixedFrameId)
                  after == frameStep(before, r, userData[r], transformTree,
                                     lastCall'.currentTime, lastCall'.renderFrameId,
                                     lastCall'.fixedFrameId)
              IN /\ ~shown(r) => after.errors[pathOf(r)] = << >>
                 /\ shown(r) => otherKinds(after.errors, pathOf(r)) =
                                    otherKinds(before.errors, pathOf(r))
                 /\ \A q \in Paths \ {pathOf(r)} : after.errors[q] = before.errors[q]
                 /\ laterOnPath(r) = {} =>
                        errors'[pathOf(r)] = after.errors[pathOf(r)]
                 /\ ~shown(r) => otherKinds(errors', pathOf(r)) = << >>
                 /\ (shown(r) /\ \A q \in othersOnPath(r) : shown(q)) =>
                        otherKinds(errors', pathOf(r)) = otherKinds(errors, pathOf(r))]_vars

\* After a frame, the path of an invisible renderable is empty though the
\* frame found a subclass error there, and the path of a visible renderable
\* that failed holds the subclass error next to the MISSING_TRANSFORM error.
C18_Witness ==
    /\ afterFrame
    /\ \E r, q \in Mapped :
          /\ ~shown(r)
          /\ errors[pathOf(r)] = << >>
          /\ \E i \in DOMAIN errorCalls :
                /\ errorCalls[i].fn = "clearPath"
                /\ errorCalls[i].path = pathOf(r)
                /\ {INVALID_MESSAGE, MISSING_TRANSFORM} \subseteq errorCalls[i].cleared
          /\ shown(q) /\ failed(q)
          /\ DOMAIN errors[pathOf(q)] = {INVALID_MESSAGE, MISSING_TRANSFORM}

\* The settings paths no renderable of the mapping reports at.
orphanPaths == {p \in Paths : \A r \in Mapped : pathOf(r) # p}

\* C19: dispose() and removeAllRenderables() leave the error sink as it was,
\* and startFrame leaves the errors at every path that no renderable of the
\* mapping reports at as they were.
C19_ErrorsOutliveRenderables ==
    [][/\ lastCall'.op \in Disposers => errors' = errors
       /\ lastCall'.op = "startFrame" =>
              \A p \in orphanPaths : errors'[p] = errors[p]]_vars

\* After a frame over a non-empty mapping, the MISSING_TRANSFORM error of a
\* renderable that was disposed and removed is still at its path, which no
\* renderable of the mapping reports at.
C19_Witness ==
    /\ afterFrame
    /\ Mapped # {}
    /\ \E r \in RenderableIds :
          /\ disposed[r] = 1
          /\ r \notin Mapped
          /\ pathOf(r) \in orphanPaths
          /\ missingTransformAt(pathOf(r))
          /\ errors[pathOf(r)][MISSING_TRANSFORM].renderFrameId # lastCall.renderFrameId

\* The methods that end with updateSettingsTree().
Refreshers == {"removeAllRenderables", "saveSetting"}

\* C20: dispose() makes no push to the settings sink and leaves its nodes as
\* they were; removeAllRenderables() and saveSetting() make exactly one push;
\* every push of every step is made under the extension's id, and the nodes
\* under every other key stay as they were.
C20_SinkPushes ==
    [][/\ lastCall'.op = "dispose" =>
              (sinkCalls' = << >> /\ nodesByKey' = nodesByKey)
       /\ lastCall'.op \in Refreshers =>
              (Len(sinkCalls') = 1 /\ nodesByKey'[ExtensionId] = sinkCalls'[1].nodes)
       /\ \A i \in DOMAIN sinkCalls' : sinkCalls'[i].key = ExtensionId
       /\ DOMAIN nodesByKey' \subseteq (DOMAIN nodesByKey) \cup {ExtensionId}
       /\ \A k \in (DOMAIN nodesByKey) \ {ExtensionId} :
              k \in DOMAIN nodesByKey' /\ nodesByKey'[k] = nodesByKey[k]]_vars

\* dispose() of an extension that held renderables and had settings saved:
\* nothing was pushed, the nodes under both keys are those of the earlier
\* pushes.
C20_Witness ==
    /\ lastCall.op = "dispose"
    /\ lastCall.mapping # << >>
    /\ config # << >>
    /\ sinkCalls = << >>
    /\ nodesByKey[ExtensionId] = settingsNodes(lastCall.mapping, config)
    /\ nodesByKey[OtherKey] = <<"grid">>

\* C21: removeAllRenderables() detaches exactly the children that are in the
\* mapping, every other child stays; dispose() leaves no child at all; and
\* every startFrame, also one that follows removeAllRenderables(), processes
\* every renderable of the mapping, with one updatePose() call for each
\* visible one.
C21_DetachOnlyMapped ==
    [][/\ lastCall'.op = "removeAllRenderables" =>
              /\ children' = children \ Mapped
              /\ (OtherChild \in children => OtherChild \in children')
       /\ lastCall'.op = "dispose" => children' = {}
       /\ lastCall'.op = "startFrame" =>
              /\ processedCount' = Len(renderables)
              /\ \A r \in Mapped :
                    shown(r) => \E i \in DOMAIN poseCalls' :
                                    poseCalls'[i].renderable = r]_vars

\* A removeAllRenderables() that removed a renderable inserted after the other
\* one had been removed, and processed by a frame in between; the other child
\* stays attached.
C21_Witness ==
    /\ lastCall.op = "removeAllRenderables"
    /\ Len(lastCall.mapping) = 1
    /\ \A r \in RenderableIds : disposed[r] = 1
    /\ \A r \in Range(lastCall.mapping) : missingTransformAt(pathOf(r))
    /\ children = {OtherChild}

\* C22: the refresh the constructor queued leaves the queue only by being run,
\* whatever is called before it, dispose() and removeAllRenderables()
\* included; when it runs it was queued, it makes one push under the
\* extension's id with the nodes of the mapping and the configuration of that
\* moment, and nothing is queued afterwards; and it does run.
C22_RefreshNeverCancelled ==
    /\ [][/\ microtasks' # microtasks => lastCall'.op = "microtask"
          /\ lastCall'.op = "microtask" =>
                 /\ microtasks = <<"updateSettingsTree">>
                 /\ microtasks' = << >>
                 /\ Len(sinkCalls') = 1
                 /\ sinkCalls'[1].key = ExtensionId
                 /\ sinkCalls'[1].nodes = settingsNodes(renderables, config)
                 /\ nodesByKey'[ExtensionId] = sinkCalls'[1].nodes]_vars
    /\ <>(lastCall.op = "microtask")

\* The queued refresh ran on an extension that had been emptied before it:
\* both renderables disposed, no child left, and the push made all the same.
C22_Witness ==
    /\ lastCall.op = "microtask"
    /\ \A r \in RenderableIds : disposed[r] = 1
    /\ renderables = << >>
    /\ children = {}
    /\ Len(sinkCalls) = 1
    /\ sinkCalls[1].key = ExtensionId
    /\ DOMAIN nodesByKey = {ExtensionId, OtherKey}

\* The imports in flight that the SidebarItems mounted under key m started.
importsOf(m) == {k \in DOMAIN imports : imports[k].mount = m}

\* C23 as stated: at most one import is in flight for each mounted
\* SidebarItems; a click while loadingInstance is set starts no import and
\* selects no source; and the selected source changes only in the completion
\* callback of an import, to the foxglove-websocket connection source.
C23_OneImportAtATime ==
    [][/\ \A m \in 0..MaxRefresh : Cardinality(importsOf(m)') <= 1
       /\ (lastCall'.op = "importRobotAndConnect" /\ loadingInstance # Undefined) =>
              (imports' = imports /\ selectedSource' = selectedSource)
       /\ selectedSource' # selectedSource =>
              /\ lastCall'.op = "importCallback"
              /\ selectedSource'.type = "connection"
              /\ selectedSource'.id = "foxglove-websocket"]_vars

\* What holds of the guard: a click whose handler sees a truthy
\* loadingInstance starts nothing; while running.json lists no instance with
\* an empty name, at most one import of the mounted SidebarItems is in flight;
\* and the selected source changes only in the completion callback of an
\* import, to the foxglove-websocket connection source.
C23_GuardWhileTruthy ==
    [][/\ (\A instance \in arenaRunningInstances' : instance.name # "") =>
              Cardinality({k \in DOMAIN imports' :
                              imports'[k].mount = sidebarItemsKey'}) <= 1
       /\ (lastCall'.op = "importRobotAndConnect" /\ truthy(boundLoadingInstance)) =>
              (imports' = imports /\ selectedSource' = selectedSource
                  /\ loadingInstance' = loadingInstance)
       /\ selectedSource' # selectedSource =>
              /\ lastCall'.op = "importCallback"
              /\ selectedSource'.type = "connection"
              /\ selectedSource'.id = "foxglove-websocket"]_vars

\* A click on another instance while the instance with the empty name was
\* loading: loadingInstance had been set to btoa("") = "", the handler did not
\* return, and the mounted SidebarItems now has two imports in flight.
C23_Witness ==
    /\ lastCall.op = "importRobotAndConnect"
    /\ lastCall.started
    /\ truthy(loadingInstance)
    /\ Cardinality(importsOf(sidebarItemsKey)) = 2
    /\ \E k \in importsOf(sidebarItemsKey) : imports[k].instance.name = ""
    /\ selectedSource = NoSource

\* C24 as stated: when the completion callback of an import of the mounted
\* SidebarItems is invoked, loadingInstance is undefined afterwards.
C24_LoadingAlwaysReset ==
    [][(lastCall'.op = "importCallback" /\ lastCall'.mount = sidebarItemsKey) =>
          loadingInstance' = Undefined]_vars

\* What holds of the reset: the callback resets loadingInstance exactly when
\* it finds the foxglove-websocket connection source, and leaves it as it was
\* when it does not; and a loadingInstance that blocks the handler is changed
\* by nothing but such a callback or a remount of SidebarItems.
C24_ResetWhenSourceFound ==
    [][/\ (lastCall'.op = "importCallback" /\ lastCall'.mount = sidebarItemsKey) =>
              /\ lastCall'.found =>
                     (loadingInstance' = Undefined /\ selectedSource' # NoSource)
              /\ ~lastCall'.found =>
                     (loadingInstance' = loadingInstance
                         /\ selectedSource' = selectedSource)
       /\ (truthy(loadingInstance) /\ loadingInstance' # loadingInstance) =>
              \/ lastCall'.op = "importCallback" /\ lastCall'.found
              \/ sidebarItemsKey' # sidebarItemsKey]_vars

\* The callback of the only import returned without a source to select: no
\* import is in flight, loadingInstance is still set, and the rendered handler
\* will ignore every click.
C24_Witness ==
    /\ lastCall.op = "importCallback"
    /\ lastCall.mount = sidebarItemsKey
    /\ ~lastCall.found
    /\ imports = << >>
    /\ truthy(loadingInstance)
    /\ truthy(boundLoadingInstance)
    /\ selectedSource = NoSource

====
